---- MODULE Spec2Model ----
(***************************************************************************)
(* payfazz/secureenv: read an environment variable once, unset it, and     *)
(* optionally parse it into a typed output.                                *)
(*                                                                         *)
(* Three source files are modelled:                                        *)
(*   src/unnamed/part_000  Get(key, def)                 (revision "get0") *)
(*   src/unnamed/part_001  GetT(key) and T(output, key)  (revision "get")  *)
(*   src/secureenv.go      T(output, key), direct        (revision "dir")  *)
(*                                                                         *)
(* A string is a sequence of one-character strings.  An integer is a       *)
(* sequence of 16-bit limbs, least significant first, in two's complement  *)
(* at the width of its Go type, so that 64-bit ranges and the truncating   *)
(* integer conversions are exact.                                          *)
(***************************************************************************)
EXTENDS Integers, Sequences, FiniteSets, TLC

VARIABLES
    env,        \* the process environment: the keys set, each with its string
    env0,       \* the environment the process was launched with
    intsize,    \* bit width of int, fixed at package initialisation
    uintsize,   \* bit width of uint, fixed at package initialisation
    fr,         \* per thread: the frame of the call in progress (or finished)
    last,       \* sequential use: the last completed call, with its pre-state
    consumed,   \* keys some call has found present
    ncalls      \* calls made so far

vars == <<env, env0, intsize, uintsize, fr, last, consumed, ncalls>>

-----------------------------------------------------------------------------
(* Characters and strings *)

DecChars == <<"0", "1", "2", "3", "4", "5", "6", "7", "8", "9">>

LowerChars ==
    <<"a", "b", "c", "d", "e", "f", "g", "h", "i", "j", "k", "l", "m",
      "n", "o", "p", "q", "r", "s", "t", "u", "v", "w", "x", "y", "z">>

UpperChars ==
    <<"A", "B", "C", "D", "E", "F", "G", "H", "I", "J", "K", "L", "M",
      "N", "O", "P", "Q", "R", "S", "T", "U", "V", "W", "X", "Y", "Z">>

IndexIn(c, s) ==
    IF \E i \in 1..Len(s) : s[i] = c
    THEN CHOOSE i \in 1..Len(s) : s[i] = c
    ELSE 0

\* strconv's lower(c): c | ('x' - 'X'), on the letters
lower(c) ==
    LET i == IndexIn(c, UpperChars) IN IF i > 0 THEN LowerChars[i] ELSE c

IsDec(c) == IndexIn(c, DecChars) > 0

\* the digit a byte stands for in ParseUint's loop, -1 for a byte that is none
digitOf(c) ==
    LET i == IndexIn(c, DecChars)
        j == IndexIn(lower(c), LowerChars)
    IN  IF i > 0 THEN i - 1 ELSE IF j > 0 THEN j + 9 ELSE -1

Drop(s, n) == SubSeq(s, n + 1, Len(s))

RECURSIVE TakeDigits(_)
TakeDigits(s) ==
    IF s # <<>> /\ IsDec(Head(s))
    THEN <<Head(s)>> \o TakeDigits(Tail(s))
    ELSE <<>>

RECURSIVE StripLeadingZeros(_)
StripLeadingZeros(s) ==
    IF s # <<>> /\ Head(s) = "0" THEN StripLeadingZeros(Tail(s)) ELSE s

RECURSIVE StripTrailingZeros(_)
StripTrailingZeros(s) ==
    IF s # <<>> /\ s[Len(s)] = "0"
    THEN StripTrailingZeros(SubSeq(s, 1, Len(s) - 1))
    ELSE s

-----------------------------------------------------------------------------
(* Errors: nil, or a *strconv.NumError wrapping ErrSyntax or ErrRange *)

nil == "nil"
ErrSyntax == "ErrSyntax"
ErrRange == "ErrRange"

-----------------------------------------------------------------------------
(* Fixed-width integers as limbs *)

LimbBase == 2^16

Limbs(bits) == bits \div 16

ZeroLimbs(n) == [i \in 1..n |-> 0]

\* n * b + c, one limb longer than n
RECURSIVE MulAdd(_, _, _)
MulAdd(n, b, c) ==
    IF n = <<>>
    THEN <<c>>
    ELSE LET x == Head(n) * b + c
         IN  <<x % LimbBase>> \o MulAdd(Tail(n), b, x \div LimbBase)

\* a < b, for limb sequences of one length
LimbLess(a, b) ==
    \E i \in 1..Len(a) :
        /\ a[i] < b[i]
        /\ \A j \in (i + 1)..Len(a) : a[j] = b[j]

\* -n in two's complement at n's width
NegLimbs(n) ==
    SubSeq(MulAdd([i \in 1..Len(n) |-> LimbBase - 1 - n[i]], 1, 1), 1, Len(n))

\* a Go integer conversion to a type of the given width: the low bits
Trunc(n, bits) == SubSeq(n, 1, Limbs(bits))

\* 1<<bitSize - 1 as a uint64
MaxVal(bitSize) ==
    [i \in 1..4 |-> IF i <= Limbs(bitSize) THEN LimbBase - 1 ELSE 0]

\* 1 << (bitSize-1) as a uint64
Cutoff(bitSize) ==
    [i \in 1..4 |-> IF i = Limbs(bitSize) THEN 2^15 ELSE 0]

\* cutoff - 1
CutoffLess1(bitSize) ==
    [i \in 1..4 |-> IF i < Limbs(bitSize) THEN LimbBase - 1
                    ELSE IF i = Limbs(bitSize) THEN 2^15 - 1 ELSE 0]

\* a value of 5 limbs does not fit in bitSize bits
Exceeds(n, bitSize) == \E i \in 1..Len(n) : i > Limbs(bitSize) /\ n[i] # 0

-----------------------------------------------------------------------------
(* strconv.ParseUint, strconv.ParseInt (base 0 honours 0b, 0o, 0x and a    *)
(* leading 0; the underscore digit separator is not modelled and no value  *)
(* of the model holds one)                                                 *)

RECURSIVE UintLoop(_, _, _, _)
UintLoop(s, base, bitSize, n) ==
    IF s = <<>>
    THEN [val |-> n, err |-> nil]
    ELSE LET d == digitOf(Head(s)) IN
         IF d < 0 \/ d >= base
         THEN [val |-> ZeroLimbs(4), err |-> ErrSyntax]
         ELSE LET n1 == MulAdd(n, base, d) IN
              IF Exceeds(n1, bitSize)
              THEN [val |-> MaxVal(bitSize), err |-> ErrRange]
              ELSE UintLoop(Tail(s), base, bitSize, SubSeq(n1, 1, 4))

\* the base a base-0 literal is written in: 0b, 0o, 0x, or a leading 0
PrefixBase(s) ==
    IF s[1] # "0" THEN 10
    ELSE IF Len(s) >= 3 /\ lower(s[2]) = "b" THEN 2
    ELSE IF Len(s) >= 3 /\ lower(s[2]) = "o" THEN 8
    ELSE IF Len(s) >= 3 /\ lower(s[2]) = "x" THEN 16
    ELSE 8

\* the length of that prefix
PrefixLen(s) ==
    IF s[1] # "0" THEN 0
    ELSE IF Len(s) >= 3 /\ lower(s[2]) \in {"b", "o", "x"} THEN 2
    ELSE 1

ParseUint(s, base, bitSize) ==
    IF s = <<>>
    THEN [val |-> ZeroLimbs(4), err |-> ErrSyntax]
    ELSE IF base # 0
    THEN UintLoop(s, base, bitSize, ZeroLimbs(4))
    ELSE UintLoop(Drop(s, PrefixLen(s)), PrefixBase(s), bitSize, ZeroLimbs(4))

\* ParseInt once the sign is picked off and the rest parsed as un, err
SignedOf(neg, u, bitSize) ==
    IF u.err # nil /\ u.err # ErrRange
    THEN [val |-> ZeroLimbs(4), err |-> u.err]
    ELSE IF ~neg /\ ~LimbLess(u.val, Cutoff(bitSize))
    THEN [val |-> CutoffLess1(bitSize), err |-> ErrRange]
    ELSE IF neg /\ LimbLess(Cutoff(bitSize), u.val)
    THEN [val |-> NegLimbs(Cutoff(bitSize)), err |-> ErrRange]
    ELSE [val |-> IF neg THEN NegLimbs(u.val) ELSE u.val, err |-> nil]

ParseInt(s, base, bitSize) ==
    IF s = <<>>
    THEN [val |-> ZeroLimbs(4), err |-> ErrSyntax]
    ELSE SignedOf(s[1] = "-",
                  ParseUint(IF s[1] \in {"+", "-"} THEN Tail(s) ELSE s,
                            base, bitSize),
                  bitSize)

-----------------------------------------------------------------------------
(* strconv.ParseBool *)

TrueStrings ==
    { <<"1">>, <<"t">>, <<"T">>, <<"T", "R", "U", "E">>,
      <<"t", "r", "u", "e">>, <<"T", "r", "u", "e">> }

FalseStrings ==
    { <<"0">>, <<"f">>, <<"F">>, <<"F", "A", "L", "S", "E">>,
      <<"f", "a", "l", "s", "e">>, <<"F", "a", "l", "s", "e">> }

ParseBool(s) ==
    IF s \in TrueStrings THEN [val |-> TRUE, err |-> nil]
    ELSE IF s \in FalseStrings THEN [val |-> FALSE, err |-> nil]
    ELSE [val |-> FALSE, err |-> ErrSyntax]

-----------------------------------------------------------------------------
(* strconv.ParseFloat, decimal grammar:                                    *)
(*   [sign] digits [ . digits ] [ (e|E) [sign] digits ]                    *)
(* A float is its sign, its significant decimal digits d1 d2 ... and the   *)
(* exponent e of 0.d1d2... * 10^e.  Rounding to the type's precision is    *)
(* modelled as keeping its first 17 (float64) or 9 (float32) digits.       *)
(* inf, nan, hexadecimal floats and underscores are not modelled and no    *)
(* value of the model is one.                                              *)

FloatZero == [neg |-> FALSE, inf |-> FALSE, sig |-> <<>>, exp |-> 0]

FloatInf(neg) == [neg |-> neg, inf |-> TRUE, sig |-> <<>>, exp |-> 0]

FloatDigits(bitSize) == IF bitSize = 32 THEN 9 ELSE 17

\* the decimal exponent above which every value overflows the type
FloatMaxExp(bitSize) == IF bitSize = 32 THEN 39 ELSE 309

\* the digits of the smallest value of that exponent that overflows
FloatMaxSig(bitSize) ==
    IF bitSize = 32
    THEN <<"3", "4", "0", "2", "8", "2", "3", "5", "6", "7", "7", "9", "7",
           "3", "3", "6", "6">>
    ELSE <<"1", "7", "9", "7", "6", "9", "3", "1", "3", "4", "8", "6", "2",
           "3", "1", "5", "8", "0", "7", "9">>

\* 0.a < 0.b for digit strings without trailing zeros
RECURSIVE SigLess(_, _)
SigLess(a, b) ==
    IF b = <<>> THEN FALSE
    ELSE IF a = <<>> THEN TRUE
    ELSE IF Head(a) # Head(b)
    THEN IndexIn(Head(a), DecChars) < IndexIn(Head(b), DecChars)
    ELSE SigLess(Tail(a), Tail(b))

\* a decimal exponent's value; strconv stops counting at 10000
RECURSIVE DecToNat(_, _)
DecToNat(s, n) ==
    IF s = <<>> THEN n
    ELSE DecToNat(Tail(s),
                  IF n < 10000 THEN n * 10 + (IndexIn(Head(s), DecChars) - 1)
                  ELSE n)

\* a value rounded to the precision of the type
RoundFloat(f, bitSize) ==
    IF f.inf \/ Len(f.sig) <= FloatDigits(bitSize) THEN f
    ELSE [f EXCEPT !.sig =
              StripTrailingZeros(SubSeq(f.sig, 1, FloatDigits(bitSize)))]

FloatSyntaxError == [val |-> FloatZero, err |-> ErrSyntax]

\* the value 0.sig * 10^exp, checked against the range of the type
FloatChecked(neg, sig, exp, bitSize) ==
    IF sig = <<>>
    THEN [val |-> [FloatZero EXCEPT !.neg = neg], err |-> nil]
    ELSE IF \/ exp > FloatMaxExp(bitSize)
            \/ exp = FloatMaxExp(bitSize)
               /\ ~SigLess(sig, FloatMaxSig(bitSize))
    THEN [val |-> FloatInf(neg), err |-> ErrRange]
    ELSE [val |-> RoundFloat([neg |-> neg, inf |-> FALSE,
                              sig |-> sig, exp |-> exp], bitSize),
          err |-> nil]

\* mantissa digits intd.fracd, exponent e
FloatOf(neg, intd, fracd, e, bitSize) ==
    FloatChecked(neg,
                 StripTrailingZeros(StripLeadingZeros(intd \o fracd)),
                 Len(intd) + e
                   - (Len(intd \o fracd)
                      - Len(StripLeadingZeros(intd \o fracd))),
                 bitSize)

\* the exponent part, exps = (e|E) [sign] digits, or nothing
FloatExp(neg, intd, fracd, exps, bitSize) ==
    IF exps = <<>> THEN FloatOf(neg, intd, fracd, 0, bitSize)
    ELSE IF lower(exps[1]) # "e" \/ Len(exps) < 2 THEN FloatSyntaxError
    ELSE IF exps[2] \in {"+", "-"}
    THEN IF Len(exps) < 3 \/ TakeDigits(Drop(exps, 2)) # Drop(exps, 2)
         THEN FloatSyntaxError
         ELSE FloatOf(neg, intd, fracd,
                      IF exps[2] = "-"
                      THEN 0 - DecToNat(Drop(exps, 2), 0)
                      ELSE DecToNat(Drop(exps, 2), 0),
                      bitSize)
    ELSE IF TakeDigits(Drop(exps, 1)) # Drop(exps, 1)
    THEN FloatSyntaxError
    ELSE FloatOf(neg, intd, fracd, DecToNat(Drop(exps, 1), 0), bitSize)

\* the fraction part, rest = [ . digits ] [ exponent ]
FloatFrac(neg, intd, rest, bitSize) ==
    IF rest # <<>> /\ rest[1] = "."
    THEN IF intd = <<>> /\ TakeDigits(Tail(rest)) = <<>>
         THEN FloatSyntaxError
         ELSE FloatExp(neg, intd, TakeDigits(Tail(rest)),
                       Drop(rest, 1 + Len(TakeDigits(Tail(rest)))), bitSize)
    ELSE IF intd = <<>> THEN FloatSyntaxError
    ELSE FloatExp(neg, intd, <<>>, rest, bitSize)

\* the mantissa, body = digits [ . digits ] [ exponent ]
FloatMantissa(neg, body, bitSize) ==
    FloatFrac(neg, TakeDigits(body), Drop(body, Len(TakeDigits(body))),
              bitSize)

ParseFloat(s, bitSize) ==
    IF s = <<>> THEN FloatSyntaxError
    ELSE FloatMantissa(s[1] = "-",
                       IF s[1] \in {"+", "-"} THEN Tail(s) ELSE s,
                       bitSize)

-----------------------------------------------------------------------------
(* The values an environment variable of the model may hold *)

Keys == {"K1", "K2"}

Threads == {1, 2}

Values ==
    { <<>>,
      <<"t", "r", "u", "e">>,
      <<"T">>,
      <<"y", "e", "s">>,
      <<"0">>,
      <<"1">>,
      <<"8", "0", "8", "0">>,
      <<"-", "1">>,
      <<"+", "7">>,
      <<"0", "1", "0">>,
      <<"0", "x", "7", "f", "f", "f", "f", "f", "f", "f">>,
      <<"0", "x", "8", "0", "0", "0", "0", "0", "0", "0">>,
      <<"2", "1", "4", "7", "4", "8", "3", "6", "4", "7">>,
      <<"2", "1", "4", "7", "4", "8", "3", "6", "4", "8">>,
      <<"-", "2", "1", "4", "7", "4", "8", "3", "6", "4", "8">>,
      <<"-", "2", "1", "4", "7", "4", "8", "3", "6", "4", "9">>,
      <<"4", "2", "9", "4", "9", "6", "7", "2", "9", "5">>,
      <<"4", "2", "9", "4", "9", "6", "7", "2", "9", "6">>,
      <<"9", "2", "2", "3", "3", "7", "2", "0", "3", "6", "8", "5", "4", "7",
        "7", "5", "8", "0", "7">>,
      <<"9", "2", "2", "3", "3", "7", "2", "0", "3", "6", "8", "5", "4", "7",
        "7", "5", "8", "0", "8">>,
      <<"-", "9", "2", "2", "3", "3", "7", "2", "0", "3", "6", "8", "5", "4",
        "7", "7", "5", "8", "0", "8">>,
      <<"-", "9", "2", "2", "3", "3", "7", "2", "0", "3", "6", "8", "5", "4",
        "7", "7", "5", "8", "0", "9">>,
      <<"1", "8", "4", "4", "6", "7", "4", "4", "0", "7", "3", "7", "0", "9",
        "5", "5", "1", "6", "1", "5">>,
      <<"1", "8", "4", "4", "6", "7", "4", "4", "0", "7", "3", "7", "0", "9",
        "5", "5", "1", "6", "1", "6">>,
      <<"3", ".", "1", "4">>,
      <<"1", "e", "3", "9">>,
      <<"1", "e", "4", "0", "0">> }

\* the values the second key may hold
OtherValues == { <<"8", "0", "8", "0">> }

\* the values of the interleaved specification
ConcValues == { <<"t", "r", "u", "e">>, <<"y", "e", "s">> }

\* calls made in one behaviour
MaxCalls == 2

\* every environment over Keys with values in V
EnvSpace(V) == UNION { [D -> V] : D \in SUBSET Keys }

-----------------------------------------------------------------------------
(* The parses of every value of the model, tabulated once:                 *)
(* strconv.ParseBool(s), strconv.ParseFloat(s, bitSize),                   *)
(* strconv.ParseInt(s, 0, bitSize), strconv.ParseUint(s, 0, bitSize)       *)

BitSizes == {32, 64}

ParseBoolOf == [s \in Values |-> ParseBool(s)]

ParseFloatOf == [b \in BitSizes |-> [s \in Values |-> ParseFloat(s, b)]]

ParseIntOf == [b \in BitSizes |-> [s \in Values |-> ParseInt(s, 0, b)]]

ParseUintOf == [b \in BitSizes |-> [s \in Values |-> ParseUint(s, 0, b)]]

-----------------------------------------------------------------------------
(* The process environment: os.LookupEnv, os.Unsetenv *)

\* a lookup in the manner of os.Getenv: an unset key reads as the empty
\* string, and is not told apart from a key set to it
LookupEnv_Getenv(e, key) ==
    [val |-> IF key \in DOMAIN e THEN e[key] ELSE <<>>, ok |-> TRUE]

LookupEnv(e, key) ==
    IF key \in DOMAIN e
    THEN [val |-> e[key], ok |-> TRUE]
    ELSE [val |-> <<>>, ok |-> FALSE]

\* a removal in the manner of os.Clearenv: every key goes
Unsetenv_Clearenv(e, key) == [k \in {} |-> <<>>]

Unsetenv(e, key) == [k \in DOMAIN e \ {key} |-> e[k]]

-----------------------------------------------------------------------------
(* Functions, their Go types and the frame of a call *)

Types ==
    {"string", "bool", "float64", "float32", "int64", "int32", "int",
     "uint64", "uint32", "uint"}

FetchFns ==
    {"GetString", "GetBool", "GetFloat64", "GetFloat32", "GetInt64",
     "GetInt32", "GetInt", "GetUint64", "GetUint32", "GetUint"}

\* the assign functions of secureenv.go
DirectFns ==
    {"String", "Bool", "Float64", "Float32", "Int64", "Int32", "Int",
     "Uint64", "Uint32", "Uint"}

\* the assign functions of part_001, built on the Get* functions
ViaGetFns ==
    {"String_get", "Bool_get", "Float64_get", "Float32_get", "Int64_get",
     "Int32_get", "Int_get", "Uint64_get", "Uint32_get", "Uint_get"}

AssignFns == DirectFns \cup ViaGetFns

AllFns == {"Get"} \cup FetchFns \cup AssignFns

TypeOf(fn) ==
    CASE fn \in {"Get", "GetString", "String", "String_get"} -> "string"
      [] fn \in {"GetBool", "Bool", "Bool_get"} -> "bool"
      [] fn \in {"GetFloat64", "Float64", "Float64_get"} -> "float64"
      [] fn \in {"GetFloat32", "Float32", "Float32_get"} -> "float32"
      [] fn \in {"GetInt64", "Int64", "Int64_get"} -> "int64"
      [] fn \in {"GetInt32", "Int32", "Int32_get"} -> "int32"
      [] fn \in {"GetInt", "Int", "Int_get"} -> "int"
      [] fn \in {"GetUint64", "Uint64", "Uint64_get"} -> "uint64"
      [] fn \in {"GetUint32", "Uint32", "Uint32_get"} -> "uint32"
      [] fn \in {"GetUint", "Uint", "Uint_get"} -> "uint"

\* the bit width of an integer type on this platform
WidthOf(typ) ==
    CASE typ \in {"int64", "uint64"} -> 64
      [] typ \in {"int32", "uint32"} -> 32
      [] typ = "int" -> intsize
      [] typ = "uint" -> uintsize

\* the zero value of a Go type
ZeroOf(typ) ==
    CASE typ = "string" -> <<>>
      [] typ = "bool" -> FALSE
      [] typ \in {"float64", "float32"} -> FloatZero
      [] OTHER -> ZeroLimbs(Limbs(WidthOf(typ)))

\* a value of the type other than its zero value
SomeOf(typ) ==
    CASE typ = "string" -> <<"d", "e", "f">>
      [] typ = "bool" -> TRUE
      [] typ \in {"float64", "float32"} ->
            [neg |-> FALSE, inf |-> FALSE, sig |-> <<"2", "5">>, exp |-> 1]
      [] OTHER -> [i \in 1..Limbs(WidthOf(typ)) |-> IF i = 1 THEN 42 ELSE 0]

\* what the caller's output variable may hold before an assign call
OutInits(fn) == {ZeroOf(TypeOf(fn)), SomeOf(TypeOf(fn))}

\* the second argument of Get
Defaults == {<<>>, <<"d", "e", "f">>}

IdleFrame ==
    [fn |-> "none", key |-> "none", pc |-> "idle", envv |-> <<>>,
     ok |-> FALSE, val |-> <<>>, err |-> nil, out |-> <<>>, out0 |-> <<>>,
     dfr |-> FALSE]

\* the frame on entry: locals and results hold zero values.  out is the
\* variable output points to (for Get, the argument def), out0 its value on
\* entry, dfr whether a deferred os.Unsetenv(key) is pending.
NewFrame(fn, key, out0) ==
    [fn |-> fn, key |-> key, pc |-> "lookup", envv |-> <<>>, ok |-> FALSE,
     val |-> ZeroOf(TypeOf(fn)), err |-> nil, out |-> out0, out0 |-> out0,
     dfr |-> FALSE]

-----------------------------------------------------------------------------
(* Statements shared by the functions.  A world w is [env, fr]: the        *)
(* environment and the frame of one call; each operator below is one step  *)
(* of that call.                                                           *)

\* the lookup without the defer statement: nothing is scheduled
LookupOrReturn_NoDefer(w, next) ==
    IF ~LookupEnv(w.env, w.fr.key).ok
    THEN [w EXCEPT !.fr.pc = "done"]
    ELSE [w EXCEPT !.fr.envv = LookupEnv(w.env, w.fr.key).val,
                   !.fr.ok = TRUE, !.fr.pc = next]

\* the lookup with os.Unsetenv(key) called at once instead of deferred
LookupOrReturn_UnsetNow(w, next) ==
    IF ~LookupEnv(w.env, w.fr.key).ok
    THEN [w EXCEPT !.fr.pc = "done"]
    ELSE [w EXCEPT !.env = Unsetenv(w.env, w.fr.key),
                   !.fr.envv = LookupEnv(w.env, w.fr.key).val,
                   !.fr.ok = TRUE, !.fr.pc = next]

\*   env, ok := os.LookupEnv(key)
\*   if !ok { return <zero values> }
\*   defer os.Unsetenv(key)
LookupOrReturn(w, next) ==
    IF ~LookupEnv(w.env, w.fr.key).ok
    THEN [w EXCEPT !.fr.pc = "done"]
    ELSE [w EXCEPT !.fr.envv = LookupEnv(w.env, w.fr.key).val,
                   !.fr.ok = TRUE, !.fr.dfr = TRUE, !.fr.pc = next]

\* a return whose removal is skipped when the function returns an error, as
\* if os.Unsetenv(key) were called after the error check instead of deferred
RunDeferred_SkipOnError(w) ==
    [w EXCEPT !.env = IF w.fr.dfr /\ w.fr.err = nil
                      THEN Unsetenv(w.env, w.fr.key) ELSE w.env,
              !.fr.dfr = FALSE,
              !.fr.pc = "done"]

\* the function returns: its deferred call runs
RunDeferred(w) ==
    [w EXCEPT !.env = IF w.fr.dfr THEN Unsetenv(w.env, w.fr.key) ELSE w.env,
              !.fr.dfr = FALSE,
              !.fr.pc = "done"]

\* secureenv.go's typed assign functions: p is the parse of the value read,
\* stored the parsed value converted to the type of the output
DirectAssign(w, p, stored) ==
    CASE w.fr.pc = "lookup" -> LookupOrReturn(w, "parse")
      [] w.fr.pc = "parse" ->
            IF p.err # nil
            THEN [w EXCEPT !.fr.err = p.err, !.fr.pc = "exit"]
            ELSE [w EXCEPT !.fr.val = p.val, !.fr.pc = "write"]
      [] w.fr.pc = "write" ->
            [w EXCEPT !.fr.out = stored, !.fr.pc = "exit"]
      [] w.fr.pc = "exit" -> RunDeferred(w)

\* part_001's typed Get* functions: return T(val), ok, err, where returned
\* is the parsed value converted to the type of the result
Fetch(w, p, returned) ==
    CASE w.fr.pc = "lookup" -> LookupOrReturn(w, "parse")
      [] w.fr.pc = "parse" ->
            [w EXCEPT !.fr.val = returned, !.fr.err = p.err,
                      !.fr.pc = "exit"]
      [] w.fr.pc = "exit" -> RunDeferred(w)

\* the caller's statements with the write before the error check:
\*   if ok { *output = val }; return err
CheckAndWrite_WriteFirst(w) ==
    CASE w.fr.pc = "check" ->
            IF w.fr.ok THEN [w EXCEPT !.fr.pc = "write"]
            ELSE [w EXCEPT !.fr.pc = "done"]
      [] w.fr.pc = "write" ->
            [w EXCEPT !.fr.out = w.fr.val, !.fr.pc = "done"]

\* after val, ok, err := GetT(key) has returned:
\*   if err != nil { return err }; if ok { *output = val }; return nil
CheckAndWrite(w) ==
    CASE w.fr.pc = "check" ->
            IF w.fr.err # nil THEN [w EXCEPT !.fr.pc = "done"]
            ELSE IF w.fr.ok THEN [w EXCEPT !.fr.pc = "write"]
            ELSE [w EXCEPT !.fr.pc = "done"]
      [] w.fr.pc = "write" ->
            [w EXCEPT !.fr.out = w.fr.val, !.fr.pc = "done"]

\* a step of the GetT called: once it has returned, the caller goes on
Returned(w) == IF w.fr.pc = "done" THEN [w EXCEPT !.fr.pc = "check"] ELSE w

\* part_001's typed assign functions: the call is inside GetT
InGet(w) == w.fr.pc \in {"lookup", "parse", "exit"}

-----------------------------------------------------------------------------
(* src/unnamed/part_000 *)

Get(w) ==
    CASE w.fr.pc = "lookup" ->
            IF ~LookupEnv(w.env, w.fr.key).ok
            THEN [w EXCEPT !.fr.val = w.fr.out, !.fr.pc = "done"]
            ELSE [w EXCEPT !.fr.envv = LookupEnv(w.env, w.fr.key).val,
                           !.fr.ok = TRUE, !.fr.pc = "unset"]
      [] w.fr.pc = "unset" ->
            [w EXCEPT !.env = Unsetenv(w.env, w.fr.key),
                      !.fr.val = w.fr.envv, !.fr.pc = "done"]

-----------------------------------------------------------------------------
(* src/secureenv.go *)

\* String without the early return: *output = env whatever ok is
String_WriteAlways(w) ==
    CASE w.fr.pc = "lookup" ->
            [w EXCEPT !.fr.envv = LookupEnv(w.env, w.fr.key).val,
                      !.fr.ok = LookupEnv(w.env, w.fr.key).ok,
                      !.fr.dfr = LookupEnv(w.env, w.fr.key).ok,
                      !.fr.pc = "write"]
      [] w.fr.pc = "write" ->
            [w EXCEPT !.fr.out = w.fr.envv, !.fr.pc = "exit"]
      [] w.fr.pc = "exit" -> RunDeferred(w)

String(w) ==
    CASE w.fr.pc = "lookup" -> LookupOrReturn(w, "write")
      [] w.fr.pc = "write" ->
            [w EXCEPT !.fr.out = w.fr.envv, !.fr.pc = "exit"]
      [] w.fr.pc = "exit" -> RunDeferred(w)

Bool(w) ==
    DirectAssign(w, ParseBoolOf[w.fr.envv],
        ParseBoolOf[w.fr.envv].val)

Float64(w) ==
    DirectAssign(w, ParseFloatOf[64][w.fr.envv],
        ParseFloatOf[64][w.fr.envv].val)

Float32(w) ==
    DirectAssign(w, ParseFloatOf[32][w.fr.envv],
        RoundFloat(ParseFloatOf[32][w.fr.envv].val, 32))

\* Int64 with the error of strconv.ParseInt dropped (val, _ := ...)
Int64_IgnoreErr(w) ==
    DirectAssign(w, [ParseIntOf[64][w.fr.envv] EXCEPT !.err = nil],
        ParseIntOf[64][w.fr.envv].val)

Int64(w) ==
    DirectAssign(w, ParseIntOf[64][w.fr.envv],
        ParseIntOf[64][w.fr.envv].val)

\* Int32 parsing at 64 bits: the conversion int32(val) wraps
Int32_Width64(w) ==
    DirectAssign(w, ParseIntOf[64][w.fr.envv],
        Trunc(ParseIntOf[64][w.fr.envv].val, 32))

Int32(w) ==
    DirectAssign(w, ParseIntOf[32][w.fr.envv],
        Trunc(ParseIntOf[32][w.fr.envv].val, 32))

\* Int of secureenv.go (the name Int is the set of integers here)
Int_dir(w) ==
    DirectAssign(w, ParseIntOf[intsize][w.fr.envv],
        Trunc(ParseIntOf[intsize][w.fr.envv].val, intsize))

Uint64(w) ==
    DirectAssign(w, ParseUintOf[64][w.fr.envv],
        ParseUintOf[64][w.fr.envv].val)

Uint32(w) ==
    DirectAssign(w, ParseUintOf[32][w.fr.envv],
        Trunc(ParseUintOf[32][w.fr.envv].val, 32))

Uint(w) ==
    DirectAssign(w, ParseUintOf[uintsize][w.fr.envv],
        Trunc(ParseUintOf[uintsize][w.fr.envv].val, uintsize))

-----------------------------------------------------------------------------
(* src/unnamed/part_001 *)

\* return env, ok
ReturnEnv(w) == [w EXCEPT !.fr.val = w.fr.envv]

GetString(w) ==
    CASE w.fr.pc = "lookup" ->
            ReturnEnv(LookupOrReturn(w, "exit"))
      [] w.fr.pc = "exit" -> RunDeferred(w)

String_get(w) ==
    CASE w.fr.pc \in {"lookup", "exit"} ->
            Returned(GetString(w))
      [] w.fr.pc = "check" ->
            IF w.fr.ok
            THEN [w EXCEPT !.fr.out = w.fr.val, !.fr.pc = "done"]
            ELSE [w EXCEPT !.fr.pc = "done"]

GetBool(w) ==
    Fetch(w, ParseBoolOf[w.fr.envv],
        ParseBoolOf[w.fr.envv].val)

Bool_get(w) ==
    IF InGet(w) THEN Returned(GetBool(w)) ELSE CheckAndWrite(w)

GetFloat64(w) ==
    Fetch(w, ParseFloatOf[64][w.fr.envv],
        ParseFloatOf[64][w.fr.envv].val)

Float64_get(w) ==
    IF InGet(w) THEN Returned(GetFloat64(w)) ELSE CheckAndWrite(w)

GetFloat32(w) ==
    Fetch(w, ParseFloatOf[32][w.fr.envv],
        RoundFloat(ParseFloatOf[32][w.fr.envv].val, 32))

Float32_get(w) ==
    IF InGet(w) THEN Returned(GetFloat32(w)) ELSE CheckAndWrite(w)

GetInt64(w) ==
    Fetch(w, ParseIntOf[64][w.fr.envv],
        ParseIntOf[64][w.fr.envv].val)

Int64_get(w) ==
    IF InGet(w) THEN Returned(GetInt64(w)) ELSE CheckAndWrite(w)

GetInt32(w) ==
    Fetch(w, ParseIntOf[32][w.fr.envv],
        Trunc(ParseIntOf[32][w.fr.envv].val, 32))

Int32_get(w) ==
    IF InGet(w) THEN Returned(GetInt32(w)) ELSE CheckAndWrite(w)

GetInt(w) ==
    Fetch(w, ParseIntOf[intsize][w.fr.envv],
        Trunc(ParseIntOf[intsize][w.fr.envv].val, intsize))

Int_get(w) ==
    IF InGet(w) THEN Returned(GetInt(w)) ELSE CheckAndWrite(w)

GetUint64(w) ==
    Fetch(w, ParseUintOf[64][w.fr.envv],
        ParseUintOf[64][w.fr.envv].val)

Uint64_get(w) ==
    IF InGet(w) THEN Returned(GetUint64(w)) ELSE CheckAndWrite(w)

GetUint32(w) ==
    Fetch(w, ParseUintOf[32][w.fr.envv],
        Trunc(ParseUintOf[32][w.fr.envv].val, 32))

Uint32_get(w) ==
    IF InGet(w) THEN Returned(GetUint32(w)) ELSE CheckAndWrite(w)

GetUint(w) ==
    Fetch(w, ParseUintOf[uintsize][w.fr.envv],
        Trunc(ParseUintOf[uintsize][w.fr.envv].val, uintsize))

Uint_get(w) ==
    IF InGet(w) THEN Returned(GetUint(w)) ELSE CheckAndWrite(w)

-----------------------------------------------------------------------------
(* Running a call *)

\* one step of the call in w
StepW(w) ==
    CASE w.fr.fn = "Get" -> Get(w)
      [] w.fr.fn = "String" -> String(w)
      [] w.fr.fn = "Bool" -> Bool(w)
      [] w.fr.fn = "Float64" -> Float64(w)
      [] w.fr.fn = "Float32" -> Float32(w)
      [] w.fr.fn = "Int64" -> Int64(w)
      [] w.fr.fn = "Int32" -> Int32(w)
      [] w.fr.fn = "Int" -> Int_dir(w)
      [] w.fr.fn = "Uint64" -> Uint64(w)
      [] w.fr.fn = "Uint32" -> Uint32(w)
      [] w.fr.fn = "Uint" -> Uint(w)
      [] w.fr.fn = "GetString" -> GetString(w)
      [] w.fr.fn = "GetBool" -> GetBool(w)
      [] w.fr.fn = "GetFloat64" -> GetFloat64(w)
      [] w.fr.fn = "GetFloat32" -> GetFloat32(w)
      [] w.fr.fn = "GetInt64" -> GetInt64(w)
      [] w.fr.fn = "GetInt32" -> GetInt32(w)
      [] w.fr.fn = "GetInt" -> GetInt(w)
      [] w.fr.fn = "GetUint64" -> GetUint64(w)
      [] w.fr.fn = "GetUint32" -> GetUint32(w)
      [] w.fr.fn = "GetUint" -> GetUint(w)
      [] w.fr.fn = "String_get" -> String_get(w)
      [] w.fr.fn = "Bool_get" -> Bool_get(w)
      [] w.fr.fn = "Float64_get" -> Float64_get(w)
      [] w.fr.fn = "Float32_get" -> Float32_get(w)
      [] w.fr.fn = "Int64_get" -> Int64_get(w)
      [] w.fr.fn = "Int32_get" -> Int32_get(w)
      [] w.fr.fn = "Int_get" -> Int_get(w)
      [] w.fr.fn = "Uint64_get" -> Uint64_get(w)
      [] w.fr.fn = "Uint32_get" -> Uint32_get(w)
      [] w.fr.fn = "Uint_get" -> Uint_get(w)

\* the worlds a call goes through, from its entry to its return
RECURSIVE TraceOf(_)
TraceOf(w) ==
    IF w.fr.pc = "done" THEN <<w>> ELSE <<w>> \o TraceOf(StepW(w))

\* the call in w run until it returns
RECURSIVE Run(_)
Run(w) == IF w.fr.pc = "done" THEN w ELSE Run(StepW(w))

\* a whole call of fn(key) or fn(&out, key) from environment e
CallOf(e, fn, key, out0) == Run([env |-> e, fr |-> NewFrame(fn, key, out0)])

-----------------------------------------------------------------------------
(* Sequential use: each action is one whole call *)

NoCall ==
    [fn |-> "none", key |-> "none", pre |-> <<>>, again |-> FALSE,
     fr |-> IdleFrame, steps |-> <<>>]

Init ==
    /\ env0 \in { e \in EnvSpace(Values) :
                    "K2" \in DOMAIN e => e["K2"] \in OtherValues }
    /\ env = env0
    /\ intsize \in BitSizes
    /\ uintsize = intsize
    /\ fr = [t \in Threads |-> IdleFrame]
    /\ last = NoCall
    /\ consumed = {}
    /\ ncalls = 0

\* the call fn(key) or fn(&out, key), run to its return through the worlds
\* tr.  last records the call: the environment before it (pre), whether an
\* earlier call had found the key present (again), the frame at the return
\* (fr) and, for each state the call went through, the statement about to
\* run (pc) and whether the key was then in the environment (set).
Completed(fn, key, tr) ==
    /\ ncalls < MaxCalls
    /\ ncalls' = ncalls + 1
    /\ env' = tr[Len(tr)].env
    /\ last' = [fn |-> fn, key |-> key, pre |-> env,
                again |-> key \in consumed, fr |-> tr[Len(tr)].fr,
                steps |-> [i \in 1..Len(tr) |->
                             [pc |-> tr[i].fr.pc,
                              set |-> key \in DOMAIN tr[i].env]]]
    /\ consumed' = IF tr[Len(tr)].fr.ok THEN consumed \cup {key}
                   ELSE consumed
    /\ UNCHANGED <<env0, intsize, uintsize, fr>>

Call(fn, key, out0) ==
    Completed(fn, key, TraceOf([env |-> env, fr |-> NewFrame(fn, key, out0)]))

CallGet == \E key \in Keys, def \in Defaults : Call("Get", key, def)

CallFetch == \E fn \in FetchFns, key \in Keys : Call(fn, key, <<>>)

CallAssign ==
    \E fn \in AssignFns, key \in Keys :
        \E out0 \in OutInits(fn) : Call(fn, key, out0)

Next == CallGet \/ CallFetch \/ CallAssign

Spec == Init /\ [][Next]_vars

-----------------------------------------------------------------------------
(* Concurrent use: threads call without synchronisation; each action is    *)
(* one statement of one thread's call.  The functions called are one of    *)
(* each shape: Get, the string and a typed function of each revision.      *)

ConcFns ==
    {"Get", "GetString", "GetBool", "String", "Bool", "Float64",
     "String_get", "Bool_get"}

InitConc ==
    /\ env0 \in EnvSpace(ConcValues)
    /\ env = env0
    /\ intsize \in BitSizes
    /\ uintsize = intsize
    /\ fr = [t \in Threads |-> IdleFrame]
    /\ last = NoCall
    /\ consumed = {}
    /\ ncalls = 0

Running(t) == fr[t].pc \notin {"idle", "done"}

\* thread t enters fn
Begin(t) ==
    \E fn \in ConcFns, key \in Keys :
        /\ ~Running(t)
        /\ ncalls < MaxCalls
        /\ ncalls' = ncalls + 1
        /\ fr' = [fr EXCEPT ![t] = NewFrame(fn, key, SomeOf(TypeOf(fn)))]
        /\ UNCHANGED <<env, env0, intsize, uintsize, last, consumed>>

\* thread t's call has moved to world w
Moved(t, w) ==
    /\ env' = w.env
    /\ fr' = [fr EXCEPT ![t] = w.fr]
    /\ consumed' = IF w.fr.ok THEN consumed \cup {w.fr.key} ELSE consumed
    /\ UNCHANGED <<env0, intsize, uintsize, last, ncalls>>

\* a step under a package-wide lock held for the length of a call: a thread
\* runs only while no other thread is inside a call
Step_Locked(t) ==
    /\ Running(t)
    /\ \A u \in Threads \ {t} : ~Running(u)
    /\ Moved(t, StepW([env |-> env, fr |-> fr[t]]))

\* thread t runs the next statement of its call
Step(t) ==
    /\ Running(t)
    /\ Moved(t, StepW([env |-> env, fr |-> fr[t]]))

NextConc == \E t \in Threads : Begin(t) \/ Step(t)

SpecConc == InitConc /\ [][NextConc]_vars

-----------------------------------------------------------------------------
(* What the claims speak of *)

Called == last.fn # "none"

\* the last call's key was in the environment when the call was made
Present == last.key \in DOMAIN last.pre

\* the value the last call's key then held
Held == last.pre[last.key]

TypedFns == (FetchFns \cup AssignFns) \ {"GetString", "String", "String_get"}

IntTypes == {"int64", "int32", "int", "uint64", "uint32", "uint"}

SignedTypes == {"int64", "int32", "int"}

\* parse_T(V): the parse of string v as Go type typ, at the type's width
ParseT(typ, v) ==
    CASE typ = "string" -> [val |-> v, err |-> nil]
      [] typ = "bool" -> ParseBoolOf[v]
      [] typ = "float64" -> ParseFloatOf[64][v]
      [] typ = "float32" -> ParseFloatOf[32][v]
      [] typ \in SignedTypes ->
            [val |-> Trunc(ParseIntOf[WidthOf(typ)][v].val, WidthOf(typ)),
             err |-> ParseIntOf[WidthOf(typ)][v].err]
      [] OTHER ->
            [val |-> Trunc(ParseUintOf[WidthOf(typ)][v].val, WidthOf(typ)),
             err |-> ParseUintOf[WidthOf(typ)][v].err]

\* a is a sub-mapping of b
SubMap(a, b) ==
    /\ DOMAIN a \subseteq DOMAIN b
    /\ \A k \in DOMAIN a : a[k] = b[k]

-----------------------------------------------------------------------------
\* C1: a fetch or assign of a typed function for a key that is present with
\* a value invalid for the type returns the parse error, and the key is
\* absent from the environment when the call has returned.
C1_ParseErrorRemovesKey ==
    (/\ Called
     /\ last.fn \in TypedFns
     /\ Present
     /\ ParseT(TypeOf(last.fn), Held).err # nil)
    => (/\ last.fr.err = ParseT(TypeOf(last.fn), Held).err
        /\ last.key \notin DOMAIN env)

C1_Witness ==
    /\ Called
    /\ last.fn \in TypedFns
    /\ Present
    /\ last.fr.err # nil
    /\ last.key \notin DOMAIN env

\* C2: the first fetch of a key present with a valid value returns
\* present = true, the parsed value and no error, and consumes the key; every
\* later fetch or assign for that key reports absence, returns no error and
\* leaves the environment as it was.
C2_GetOnce ==
    /\ (/\ Called
        /\ last.fn \in FetchFns
        /\ Present
        /\ ParseT(TypeOf(last.fn), Held).err = nil)
       => (/\ last.fr.ok
           /\ last.fr.val = ParseT(TypeOf(last.fn), Held).val
           /\ last.fr.err = nil
           /\ last.key \notin DOMAIN env
           /\ last.key \in consumed)
    /\ (Called /\ last.again)
       => (/\ ~last.fr.ok
           /\ last.fr.err = nil
           /\ env = last.pre)

C2_Witness ==
    /\ Called
    /\ last.again
    /\ last.fn \in FetchFns \cup AssignFns
    /\ last.key \in DOMAIN env0
    /\ ~last.fr.ok
    /\ env = last.pre

\* C3: a fetch for a key that is not in the environment returns
\* present = false, the zero value of the type and no error, and leaves the
\* environment as it was.
C3_AbsentFetch ==
    (Called /\ last.fn \in FetchFns /\ ~Present)
    => (/\ ~last.fr.ok
        /\ last.fr.val = ZeroOf(TypeOf(last.fn))
        /\ last.fr.err = nil
        /\ env = last.pre)

C3_Witness ==
    /\ Called
    /\ last.fn \in FetchFns
    /\ ~Present
    /\ ~last.fr.ok
    /\ DOMAIN env # {}
    /\ env = last.pre

\* C4: an assign for a key that is not in the environment returns no error
\* and leaves the output variable holding its value from before the call.
C4_AbsentAssignKeepsOutput ==
    (Called /\ last.fn \in AssignFns /\ ~Present)
    => (last.fr.err = nil /\ last.fr.out = last.fr.out0)

C4_Witness ==
    /\ Called
    /\ last.fn \in AssignFns
    /\ ~Present
    /\ last.fr.out0 = SomeOf(TypeOf(last.fn))
    /\ last.fr.out = last.fr.out0

\* C5: a typed assign for a key present with a value that does not parse
\* returns the parse error to its caller and leaves the output variable
\* holding its value from before the call.
C5_ParseErrorKeepsOutput ==
    (/\ Called
     /\ last.fn \in AssignFns \cap TypedFns
     /\ Present
     /\ ParseT(TypeOf(last.fn), Held).err # nil)
    => (/\ last.fr.err # nil
        /\ last.fr.err = ParseT(TypeOf(last.fn), Held).err
        /\ last.fr.out = last.fr.out0)

C5_Witness ==
    /\ Called
    /\ last.fn \in AssignFns \cap TypedFns
    /\ Present
    /\ last.fr.err # nil
    /\ last.fr.out0 = SomeOf(TypeOf(last.fn))
    /\ last.fr.out = last.fr.out0

\* C6: the environment is always a sub-mapping of the initial environment;
\* a call removes at most the entry of the key it names, only when it found
\* that key present, and every other key keeps its value.
C6_OnlyNamedKeyRemoved ==
    /\ SubMap(env, env0)
    /\ Called
       => (/\ SubMap(env, last.pre)
           /\ DOMAIN last.pre \ DOMAIN env \subseteq {last.key}
           /\ env # last.pre => Present /\ last.fr.ok)

C6_Witness ==
    /\ Called
    /\ env # last.pre
    /\ DOMAIN env # {}
    /\ last.fr.ok

-----------------------------------------------------------------------------
(* The order of the removal within a call *)

\* the states of a call in which its value has been parsed: the typed
\* functions' states after the parse statement and up to their return
AfterParse(fn, pc) == fn \in TypedFns /\ pc \in {"write", "exit"}

\* the states of a call of secureenv.go in which the output has been
\* written and the function has not yet returned
AfterWrite(fn, pc, err) == fn \in DirectFns /\ pc = "exit" /\ err = nil

\* the states of a call before the function that looked the key up returns
BeforeReturn(fn, pc) ==
    \/ pc \in {"lookup", "parse", "exit", "unset"}
    \/ pc = "write" /\ fn \in DirectFns

\* C8 as stated: in a call that finds its key present, no state has the
\* value parsed or the output written while the key is still in the
\* environment.
C8_RemovedBeforeParse ==
    (Called /\ last.fr.ok)
    => \A i \in 1..Len(last.steps) :
          (\/ AfterParse(last.fn, last.steps[i].pc)
           \/ AfterWrite(last.fn, last.steps[i].pc, last.fr.err))
          => ~last.steps[i].set

\* C8 amended: in a call that finds its key present the removal is deferred
\* to the return of the function that looked the key up: the key is in the
\* environment in every state before that return (during the parse and,
\* in secureenv.go, during the write to the output) and in none after it.
C8_RemovedAtReturn ==
    (Called /\ last.fr.ok)
    => /\ \A i \in 1..Len(last.steps) :
             last.steps[i].set <=> BeforeReturn(last.fn, last.steps[i].pc)
       /\ last.key \notin DOMAIN env

C8_Witness ==
    /\ Called
    /\ last.fr.ok
    /\ \E i \in 1..Len(last.steps) :
          /\ AfterWrite(last.fn, last.steps[i].pc, last.fr.err)
          /\ AfterParse(last.fn, last.steps[i].pc)
          /\ last.steps[i].set
    /\ last.key \notin DOMAIN env

-----------------------------------------------------------------------------
(* Integer literals, read off the text: a second reading of a value, by    *)
(* comparing numerals, against which the calls are checked                 *)

LitSigned(v) == v # <<>> /\ v[1] \in {"+", "-"}

LitNegative(v) == v # <<>> /\ v[1] = "-"

LitBody(v) == IF LitSigned(v) THEN Tail(v) ELSE v

LitBase(b) ==
    IF Len(b) >= 3 /\ b[1] = "0" /\ b[2] \in {"x", "X"} THEN 16
    ELSE IF Len(b) >= 2 /\ b[1] = "0" THEN 8
    ELSE 10

LitDigits(b) ==
    IF LitBase(b) = 16 THEN Drop(b, 2)
    ELSE IF LitBase(b) = 8 THEN Drop(b, 1)
    ELSE b

\* v is an optionally signed integer literal
DenotesInteger(v) ==
    /\ LitBody(v) # <<>>
    /\ LitDigits(LitBody(v)) # <<>>
    /\ \A i \in 1..Len(LitDigits(LitBody(v))) :
          /\ digitOf(LitDigits(LitBody(v))[i]) >= 0
          /\ digitOf(LitDigits(LitBody(v))[i]) < LitBase(LitBody(v))

\* the numeral of |n|, without leading zeros (empty for zero)
LitMagnitude(v) ==
    StripLeadingZeros([i \in 1..Len(LitDigits(LitBody(v))) |->
                          lower(LitDigits(LitBody(v))[i])])

\* the numeral of n in the base v is written in
LitNumeral(v) ==
    IF LitNegative(v) /\ LitMagnitude(v) # <<>>
    THEN <<"-">> \o LitMagnitude(v)
    ELSE LitMagnitude(v)

\* a <= b for numerals of one base without leading zeros
RECURSIVE NumeralLeq(_, _)
NumeralLeq(a, b) ==
    IF Len(a) # Len(b) THEN Len(a) < Len(b)
    ELSE IF a = <<>> THEN TRUE
    ELSE IF Head(a) # Head(b) THEN digitOf(Head(a)) < digitOf(Head(b))
    ELSE NumeralLeq(Tail(a), Tail(b))

DigitChar(d) == IF d < 10 THEN DecChars[d + 1] ELSE LowerChars[d - 9]

\* limbs n divided by d, from the most significant limb down, carrying r
RECURSIVE DivSmall(_, _, _)
DivSmall(n, d, r) ==
    IF n = <<>> THEN [q |-> <<>>, r |-> r]
    ELSE [q |-> DivSmall(SubSeq(n, 1, Len(n) - 1), d,
                         (r * LimbBase + n[Len(n)]) % d).q
                \o <<(r * LimbBase + n[Len(n)]) \div d>>,
          r |-> DivSmall(SubSeq(n, 1, Len(n) - 1), d,
                         (r * LimbBase + n[Len(n)]) % d).r]

\* the numeral of unsigned limbs n in the base
RECURSIVE NumeralOf(_, _)
NumeralOf(n, base) ==
    IF \A i \in 1..Len(n) : n[i] = 0 THEN <<>>
    ELSE NumeralOf(DivSmall(n, base, 0).q, base)
         \o <<DigitChar(DivSmall(n, base, 0).r)>>

\* the numeral of a value of the integer type typ
NumeralOfTyped(n, typ, base) ==
    IF typ \in SignedTypes /\ n[Len(n)] >= 2^15
    THEN <<"-">> \o NumeralOf(NegLimbs(n), base)
    ELSE NumeralOf(n, base)

\* n lies in the range of the integer type: -2^(W-1) .. 2^(W-1)-1, or
\* 0 .. 2^W-1
InRange(v, typ) ==
    IF typ \in SignedTypes
    THEN IF LitNegative(v)
         THEN NumeralLeq(LitMagnitude(v),
                         NumeralOf(Cutoff(WidthOf(typ)), LitBase(LitBody(v))))
         ELSE NumeralLeq(LitMagnitude(v),
                         NumeralOf(CutoffLess1(WidthOf(typ)),
                                   LitBase(LitBody(v))))
    ELSE /\ LitNegative(v) => LitMagnitude(v) = <<>>
         /\ NumeralLeq(LitMagnitude(v),
                       NumeralOf(MaxVal(WidthOf(typ)), LitBase(LitBody(v))))

IntFns == {fn \in FetchFns \cup AssignFns : TypeOf(fn) \in IntTypes}

\* the integer the last call produced: returned, or stored in the output
Produced == IF last.fn \in FetchFns THEN last.fr.val ELSE last.fr.out

\* the last call succeeded with result n, or failed with a parse error and
\* stored nothing
IntOutcome(accepted) ==
    IF accepted
    THEN /\ last.fr.err = nil
         /\ NumeralOfTyped(Produced, TypeOf(last.fn), LitBase(LitBody(Held)))
               = LitNumeral(Held)
    ELSE /\ last.fr.err # nil
         /\ last.fn \in AssignFns => last.fr.out = last.fr.out0

-----------------------------------------------------------------------------
(* The two revisions of the assign functions *)

\* the function of the same name in the other revision
Counterpart(fn) ==
    CASE fn = "String" -> "String_get"  [] fn = "String_get" -> "String"
      [] fn = "Bool" -> "Bool_get"  [] fn = "Bool_get" -> "Bool"
      [] fn = "Float64" -> "Float64_get"  [] fn = "Float64_get" -> "Float64"
      [] fn = "Float32" -> "Float32_get"  [] fn = "Float32_get" -> "Float32"
      [] fn = "Int64" -> "Int64_get"  [] fn = "Int64_get" -> "Int64"
      [] fn = "Int32" -> "Int32_get"  [] fn = "Int32_get" -> "Int32"
      [] fn = "Int" -> "Int_get"  [] fn = "Int_get" -> "Int"
      [] fn = "Uint64" -> "Uint64_get"  [] fn = "Uint64_get" -> "Uint64"
      [] fn = "Uint32" -> "Uint32_get"  [] fn = "Uint32_get" -> "Uint32"
      [] fn = "Uint" -> "Uint_get"  [] fn = "Uint_get" -> "Uint"

\* what a caller can observe of a finished call in world w
Observed(w) == [env |-> w.env, out |-> w.fr.out, err |-> w.fr.err]

\* C10: an assign function and the function of the same name in the other
\* revision, called on the same environment, key and output value, end with
\* the same environment, the same output value and the same error.
C10_RevisionsAgree ==
    (Called /\ last.fn \in AssignFns)
    => Observed(CallOf(last.pre, Counterpart(last.fn), last.key,
                       last.fr.out0))
         = [env |-> env, out |-> last.fr.out, err |-> last.fr.err]

C10_Witness ==
    /\ Called
    /\ last.fn \in DirectFns
    /\ Present
    /\ last.fr.err # nil
    /\ last.fr.out0 = SomeOf(TypeOf(last.fn))
    /\ Observed(CallOf(last.pre, Counterpart(last.fn), last.key,
                       last.fr.out0)).err # nil

-----------------------------------------------------------------------------
(* Concurrent use *)

\* C7: the accessors take no lock: a thread about to look up a key that is
\* in the environment can always do so, whatever the other threads are in
\* the middle of, and finds the key present; so two unsynchronised callers
\* can both find the same key present.
C7_NoInternalLocking ==
    \A t \in Threads :
        (fr[t].pc = "lookup" /\ fr[t].key \in DOMAIN env)
        => ENABLED (Step(t) /\ fr'[t].ok)

\* both threads have looked the same key up and found it present, one has
\* written its output and the other holds its value, and the key is still
\* in the environment: neither removal has yet run
C7_Witness ==
    /\ \A t \in Threads : fr[t].pc = "exit" /\ fr[t].ok
    /\ \A t, u \in Threads : fr[t].key = fr[u].key
    /\ \A t \in Threads : fr[t].key \in DOMAIN env
    /\ \E t, u \in Threads :
          /\ t # u
          /\ fr[t].fn \in {"String", "Bool"}
          /\ fr[t].out # fr[t].out0
          /\ fr[u].fn \in {"GetString", "GetBool"}
          /\ fr[u].val # ZeroOf(TypeOf(fr[u].fn))
          /\ fr[u].err = nil

====
